---- MODULE Spec2Model ----
(***************************************************************************)
(* A model of src/src/lib/strapi.ts: the Strapi client of the site.        *)
(*                                                                         *)
(*   fetchStrapi, fetchStrapiSingle   content fetchers (async)             *)
(*   getStrapiMedia                   media URL resolver (pure)            *)
(*   downloadStrapiImage              build-time image cache (async)       *)
(*                                                                         *)
(* JavaScript strings are TLA+ strings (Len, \o and SubSeq act on them).   *)
(* The two JavaScript non-values are the sentinels Null and Undefined; no  *)
(* URL or path of the model contains the character "<".                    *)
(* Every async function call is a task c with a program counter pc[c]; a   *)
(* step of the model is one run of a task between two awaits, as on the    *)
(* single-threaded event loop.                                             *)
(*                                                                         *)
(*   SpecFetch   calls of fetchStrapi and fetchStrapiSingle                *)
(*   SpecMedia   getStrapiMedia applied to a path, then to its own output  *)
(*   Spec        concurrent calls of downloadStrapiImage                   *)
(***************************************************************************)
EXTENDS Integers, Sequences, FiniteSets, TLC

VARIABLES
    STRAPI_URL,     \* strapi.ts:5, read once at module load
    STRAPI_TOKEN,   \* strapi.ts:6
    env,            \* import.meta.env: [DEV, PROD, MODE]
    pc,             \* pc[c]: where task c is suspended
    op,             \* op[c]: the function task c runs
    arg,            \* arg[c]: its argument (endpoint, or url)
    loc,            \* loc[c]: its local variables
    settled,        \* settled[c]: state of the promise the call returned
    result,         \* result[c]: the value the promise was fulfilled with
    requests,       \* the HTTP requests issued so far
    log,            \* log[c]: console lines written by task c
    fs,             \* public/uploads: [dir, files]
    journal,        \* the mutating filesystem calls made so far, in order
    outs            \* outputs of successive getStrapiMedia applications

vars == <<STRAPI_URL, STRAPI_TOKEN, env, pc, op, arg, loc, settled, result,
          requests, log, fs, journal, outs>>

config == <<STRAPI_URL, STRAPI_TOKEN, env>>

(***************************************************************************)
(* Bounds of the model.                                                    *)
(***************************************************************************)
MaxFetchCalls == 1
MaxImageCalls == 2
MaxApply      == 2

(***************************************************************************)
(* JavaScript values.                                                      *)
(***************************************************************************)
Null      == "<null>"
Undefined == "<undefined>"

\* !x for a string-or-absent x: undefined, null and "" are falsy.
Falsy(x) == x \in {Null, Undefined, ""}

\* `${x}` in a template literal.
Str(x) == IF x = Undefined THEN "undefined" ELSE IF x = Null THEN "null" ELSE x

Ch(s, i) == SubSeq(s, i, i)

\* s.startsWith(p)
StartsWith(s, p) == Len(s) >= Len(p) /\ SubSeq(s, 1, Len(p)) = p

\* The least index i >= from with s[i] in chars, or Len(s) + 1.
IndexOf(s, chars, from) ==
    LET hits == {i \in from..Len(s) : Ch(s, i) \in chars}
    IN  IF hits = {} THEN Len(s) + 1
        ELSE CHOOSE i \in hits : \A j \in hits : i <= j

\* The greatest index i with s[i] = "/", or 0.
LastSlash(s) ==
    LET hits == {i \in 1..Len(s) : Ch(s, i) = "/"}
    IN  IF hits = {} THEN 0
        ELSE CHOOSE i \in hits : \A j \in hits : i >= j

\* s.split('/').pop(): what follows the last "/" (all of s when it has none).
LastSegment(s) == SubSeq(s, LastSlash(s) + 1, Len(s))

(***************************************************************************)
(* new URL(s), with no base: the scheme and the pathname, or a TypeError.  *)
(* Dot segments and percent-encoding are left as they are: no string of    *)
(* the model has a "." or ".." segment or a character that is encoded.     *)
(***************************************************************************)
Letters == {"a", "b", "c", "d", "e", "f", "g", "h", "i", "j", "k", "l", "m",
            "n", "o", "p", "q", "r", "s", "t", "u", "v", "w", "x", "y", "z"}
SchemeChars == Letters \cup {"0", "1", "2", "3", "4", "5", "6", "7", "8", "9",
                             "+", "-", "."}

\* Special schemes: the slashes after "scheme:" are skipped, then the host.
SkipSlashes(s, from) ==
    LET rest == {i \in from..Len(s) : Ch(s, i) \notin {"/", "\\"}}
    IN  IF rest = {} THEN Len(s) + 1
        ELSE CHOOSE i \in rest : \A j \in rest : i <= j

\* The URL parser's pass over s: ok is whether new URL(s) returns (TRUE) or
\* throws TypeError (FALSE); scheme and pathname are those of the URL record.
ParseUrl(s) ==
    LET schemeEnd == IndexOf(s, {":"}, 1)
        scheme    == SubSeq(s, 1, schemeEnd - 1)
        hasScheme == /\ schemeEnd <= Len(s)
                     /\ schemeEnd > 1
                     /\ Ch(s, 1) \in Letters
                     /\ \A i \in 2..(schemeEnd - 1) : Ch(s, i) \in SchemeChars
        special   == scheme \in {"http", "https"}
        hostStart == SkipSlashes(s, schemeEnd + 1)
        hostEnd   == IndexOf(s, {"/", "\\", "?", "#"}, hostStart)
        pathStart == IF special THEN hostEnd ELSE schemeEnd + 1
        pathEnd   == IndexOf(s, {"?", "#"}, pathStart)
        path      == SubSeq(s, pathStart, pathEnd - 1)
    IN  IF ~hasScheme \/ (special /\ hostEnd = hostStart)
        THEN [ok |-> FALSE, scheme |-> "", pathname |-> ""]
        ELSE [ok |-> TRUE, scheme |-> scheme,
              pathname |-> IF special /\ path = "" THEN "/" ELSE path]

UrlParses(s) == ParseUrl(s).ok

\* new URL(s).pathname, for s with UrlParses(s).
Pathname(s) == ParseUrl(s).pathname

(***************************************************************************)
(* The configurations and inputs the model draws from.                     *)
(***************************************************************************)
BaseUrls  == {Undefined, "", "https://cms.io", "cms.io"}
Tokens    == {Undefined, "s3cret"}
Modes     == {"development", "production"}
\* Vite sets DEV = ~PROD; DEV = PROD = FALSE is an environment that sets neither.
Envs      == {e \in [DEV : BOOLEAN, PROD : BOOLEAN, MODE : Modes] : ~(e.DEV /\ e.PROD)}
Endpoints == {"menu-items", "homepage"}

FetchCalls == 1..MaxFetchCalls
ImageCalls == 1..MaxImageCalls

\* strapi.ts:114, 181, 320: if (!STRAPI_URL) is the unconfigured mode.
ConfiguredIgnoringEmpty == STRAPI_URL # Undefined
Configured == ~Falsy(STRAPI_URL)

(***************************************************************************)
(* JSON values a fetcher returns. body is the kind of the parsed value,    *)
(* data and meta the kinds of its two members, items the elements of data  *)
(* when data is an array.                                                  *)
(***************************************************************************)
Json(b, d, i, m, p) ==
    [body |-> b, data |-> d, items |-> i, meta |-> m, pagination |-> p]

\* { data: [], meta: {} }
EmptyCollection == Json("object", "array", <<>>, "object", "absent")
\* { data: null, meta: {} }
NullSingle      == Json("object", "null", <<>>, "object", "absent")

\* What response.json() can yield for a body that parses.
Bodies == { Json("object", "array", <<1, 2>>, "object", "present"),
            EmptyCollection,
            Json("object", "object", <<>>, "object", "absent"),
            NullSingle,
            Json("object", "absent", <<>>, "absent", "absent"),
            Json("null", "absent", <<>>, "absent", "absent") }

\* data?.data?.length || 0
ItemCount(b) == IF b.data = "array" THEN Len(b.items) ELSE 0

Statuses == {200, 201, 400, 401, 403, 404, 418, 500, 503}

\* response.ok
Ok(status) == status >= 200 /\ status <= 299

StatusText(status) ==
    CASE status = 400 -> "Bad Request"
      [] status = 401 -> "Unauthorized"
      [] status = 403 -> "Forbidden"
      [] status = 404 -> "Not Found"
      [] status = 418 -> "I'm a teapot"
      [] status = 500 -> "Internal Server Error"
      [] status = 503 -> "Service Unavailable"
      [] OTHER -> "OK"

\* AbortSignal.timeout(10000)
FetchTimeoutMs == 10000
NoTimeout      == 0

\* What a pending fetch(url) of a parsable http(s) url settles with: a response
\* of some status, or a rejection (a timeout only under a timeout signal).
NetworkError == "TypeError: fetch failed"
TimeoutError == "TimeoutError: The operation was aborted due to timeout"
ParseUrlError == "TypeError: Failed to parse URL"
SyntaxError  == "SyntaxError: Unexpected token in JSON"

\* fetch(url) sends a request only for a url that parses with an http(s) scheme.
Fetchable(url) == ParseUrl(url).ok /\ ParseUrl(url).scheme \in {"http", "https"}

Rejections(timeout) ==
    {NetworkError} \cup (IF timeout > 0 THEN {TimeoutError} ELSE {})

\* What await fetch(...) of call c can reject with: a TypeError when the url
\* was not fetchable and no request was sent, else what befalls the request.
FetchRejections(sent, timeout) ==
    IF sent = {} THEN {ParseUrlError} ELSE Rejections(timeout)

(***************************************************************************)
(* fetchStrapi and fetchStrapiSingle.                                      *)
(***************************************************************************)
Fetchers == {"fetchStrapi", "fetchStrapiSingle"}

\* strapi.ts:121, 188
RequestUrl(f, endpoint) ==
    IF f = "fetchStrapi"
    THEN Str(STRAPI_URL) \o "/api/" \o endpoint
         \o "?populate[image][fields][0]=url&populate[image][fields][1]=alternativeText"
         \o "&populate[image][fields][2]=formats&populate[cuisine][fields][0]=name"
    ELSE Str(STRAPI_URL) \o "/api/" \o endpoint
         \o "?populate[heroSection][populate]=heroImage"

\* strapi.ts:129-131, 195-197: the Authorization header, or none.
Authorization ==
    IF ~Falsy(STRAPI_TOKEN) THEN "Bearer " \o STRAPI_TOKEN ELSE Undefined

\* strapi.ts:141-151, 206-216: the message of the Error thrown on !response.ok.
ErrorMessage(f, endpoint, status) ==
    IF status = 404 THEN "Endpoint not found: " \o endpoint
    ELSE IF status = 401
    THEN "Authentication required. Please check your API token."
    ELSE IF status = 403
    THEN "Access forbidden. Your API token may not have the required permissions."
    ELSE IF status >= 500 THEN "Strapi server error. Please try again later."
    ELSE IF f = "fetchStrapi"
    THEN "Failed to fetch from Strapi: " \o StatusText(status)
    ELSE "Failed to fetch " \o endpoint \o ": " \o StatusText(status)

\* The value both early return and catch block give back.
Fallback(f) == IF f = "fetchStrapi" THEN EmptyCollection ELSE NullSingle

\* How a call ends: the promise's state, its value, the console lines.
Outcome(s, v, l) == [settled |-> s, value |-> v, log |-> l]

\* strapi.ts:114-119, 181-186
Unconfigured(f, endpoint) ==
    Outcome("fulfilled", Fallback(f),
            IF env.DEV
            THEN << "Strapi not configured - returning "
                    \o (IF f = "fetchStrapi" THEN "empty" ELSE "null")
                    \o " data for " \o endpoint >>
            ELSE << >>)

\* strapi.ts:163-175, 228-239: catch (error) { log; return fallback }
FetchCatchRethrows(f, endpoint, error) ==
    Outcome("rejected", error, << >>)
FetchCatch(f, endpoint, error) ==
    Outcome("fulfilled", Fallback(f),
            IF env.DEV
            THEN << "Strapi fetch error for " \o endpoint \o ": " \o error,
                    "Returning " \o (IF f = "fetchStrapi" THEN "empty" ELSE "null")
                    \o " data - pages will use fallback content" >>
            ELSE << "Using fallback content for " \o endpoint
                    \o " (Strapi unavailable)" >>)

\* strapi.ts:156-162, 221-227: return data, as parsed.
Parsed(f, endpoint, data) ==
    Outcome("fulfilled", data,
            IF env.DEV
            THEN << IF f = "fetchStrapi"
                    THEN "Successfully fetched " \o ToString(ItemCount(data))
                         \o " items from " \o endpoint
                    ELSE "Successfully fetched " \o endpoint >>
            ELSE << >>)

\* url: the url / fullUrl constant; status: response.status; error: what the
\* catch block caught.
NoLocals == [url |-> Undefined, filename |-> Undefined, status |-> 0,
             buffer |-> Undefined, error |-> Undefined]

\* The task ends: its promise settles.
Settle(c, o) ==
    /\ pc' = [pc EXCEPT ![c] = "done"]
    /\ settled' = [settled EXCEPT ![c] = o.settled]
    /\ result' = [result EXCEPT ![c] = o.value]
    /\ log' = [log EXCEPT ![c] = log[c] \o o.log]

\* fetchStrapi(endpoint) / fetchStrapiSingle(endpoint), up to await fetch(...).
CallFetch(c, f, endpoint) ==
    /\ pc[c] = "idle"
    /\ op' = [op EXCEPT ![c] = f]
    /\ arg' = [arg EXCEPT ![c] = endpoint]
    /\ IF ~Configured
       THEN /\ Settle(c, Unconfigured(f, endpoint))
            /\ UNCHANGED <<loc, requests>>
       ELSE LET url == RequestUrl(f, endpoint) IN
            /\ loc' = [loc EXCEPT ![c].url = url]
            /\ requests' =
                 IF Fetchable(url)
                 THEN requests \cup {[by |-> c, url |-> url,
                                      auth |-> Authorization,
                                      timeout |-> FetchTimeoutMs]}
                 ELSE requests
            /\ pc' = [pc EXCEPT ![c] = "fetch"]
            /\ UNCHANGED <<settled, result, log>>
    /\ UNCHANGED <<config, fs, journal, outs>>

\* await fetch(...) rejects: the url did not parse, the network failed, or the
\* 10 second signal fired.
FetchRejects(c, error) ==
    /\ pc[c] = "fetch"
    /\ op[c] \in Fetchers
    /\ error \in FetchRejections({r \in requests : r.by = c}, FetchTimeoutMs)
    /\ loc' = [loc EXCEPT ![c].error = error]
    /\ Settle(c, FetchCatch(op[c], arg[c], error))
    /\ UNCHANGED <<config, op, arg, requests, fs, journal, outs>>

\* await fetch(...) resolves with a response of some status.
FetchResponds(c, status) ==
    /\ pc[c] = "fetch"
    /\ op[c] \in Fetchers
    /\ \E r \in requests : r.by = c
    /\ IF ~Ok(status)
       THEN LET error == "Error: " \o ErrorMessage(op[c], arg[c], status) IN
            /\ loc' = [loc EXCEPT ![c].status = status, ![c].error = error]
            /\ Settle(c, FetchCatch(op[c], arg[c], error))
       ELSE /\ loc' = [loc EXCEPT ![c].status = status]
            /\ pc' = [pc EXCEPT ![c] = "json"]
            /\ UNCHANGED <<settled, result, log>>
    /\ UNCHANGED <<config, op, arg, requests, fs, journal, outs>>

\* await response.json() rejects: the body is not JSON, or the read failed.
JsonRejects(c, error) ==
    /\ pc[c] = "json"
    /\ op[c] \in Fetchers
    /\ error \in {SyntaxError} \cup Rejections(FetchTimeoutMs)
    /\ loc' = [loc EXCEPT ![c].error = error]
    /\ Settle(c, FetchCatch(op[c], arg[c], error))
    /\ UNCHANGED <<config, op, arg, requests, fs, journal, outs>>

\* await response.json() resolves with the parsed body.
JsonResolves(c, data) ==
    /\ pc[c] = "json"
    /\ op[c] \in Fetchers
    /\ Settle(c, Parsed(op[c], arg[c], data))
    /\ UNCHANGED <<config, op, arg, loc, requests, fs, journal, outs>>

AllErrors == {NetworkError, TimeoutError, ParseUrlError, SyntaxError}

NoFiles == [dir |-> FALSE, files |-> << >>]

InitConfig ==
    /\ STRAPI_URL \in BaseUrls
    /\ STRAPI_TOKEN \in Tokens
    /\ env \in Envs

InitCalls(calls) ==
    /\ pc = [c \in calls |-> "idle"]
    /\ op = [c \in calls |-> "none"]
    /\ arg = [c \in calls |-> Undefined]
    /\ loc = [c \in calls |-> NoLocals]
    /\ settled = [c \in calls |-> "pending"]
    /\ result = [c \in calls |-> Undefined]
    /\ log = [c \in calls |-> << >>]
    /\ requests = {}

InitFetch ==
    /\ InitConfig
    /\ InitCalls(FetchCalls)
    /\ fs = NoFiles
    /\ journal = << >>
    /\ outs = << >>

NextFetch ==
    \E c \in FetchCalls :
        \/ \E f \in Fetchers, e \in Endpoints : CallFetch(c, f, e)
        \/ \E error \in AllErrors : FetchRejects(c, error)
        \/ \E status \in Statuses : FetchResponds(c, status)
        \/ \E error \in AllErrors : JsonRejects(c, error)
        \/ \E data \in Bodies : JsonResolves(c, data)

SpecFetch == InitFetch /\ [][NextFetch]_vars

(***************************************************************************)
(* getStrapiMedia.                                                         *)
(***************************************************************************)
\* strapi.ts:311-326 without the test for an absolute url.
getStrapiMediaAlwaysPrefixes(url) ==
    IF Falsy(url) THEN Null
    ELSE IF ~Configured THEN Null
    ELSE Str(STRAPI_URL) \o url
\* strapi.ts:311-326
getStrapiMedia(url) ==
    IF Falsy(url) THEN Null
    ELSE IF StartsWith(url, "http") THEN url
    ELSE IF ~Configured THEN Null
    ELSE Str(STRAPI_URL) \o url

MediaPaths == {Null, Undefined, "", "/uploads/a.jpg", "uploads/a.jpg",
               "https://cdn.io/a.jpg", "http://cdn.io/a.jpg", "httpfoo", "/http"}

\* The caller applies getStrapiMedia to a path, then to what it returned.
Resolve ==
    /\ Len(outs) < MaxApply
    /\ outs' = Append(outs, getStrapiMedia(IF outs = << >> THEN arg[1]
                                           ELSE outs[Len(outs)]))
    /\ UNCHANGED <<config, pc, op, arg, loc, settled, result, requests, log,
                   fs, journal>>

InitMedia ==
    /\ InitConfig
    /\ pc = [c \in {1} |-> "idle"]
    /\ op = [c \in {1} |-> "getStrapiMedia"]
    /\ arg \in [{1} -> MediaPaths]
    /\ loc = [c \in {1} |-> NoLocals]
    /\ settled = [c \in {1} |-> "pending"]
    /\ result = [c \in {1} |-> Undefined]
    /\ log = [c \in {1} |-> << >>]
    /\ requests = {}
    /\ fs = NoFiles
    /\ journal = << >>
    /\ outs = << >>

NextMedia == Resolve

SpecMedia == InitMedia /\ [][NextMedia]_vars

(***************************************************************************)
(* downloadStrapiImage.                                                    *)
(***************************************************************************)
ImagePaths == {Null, Undefined, "", "/uploads/a.jpg", "https://cdn.io/a.jpg",
               "/uploads/"}
\* The bytes the response to call c carries: each download is told apart from
\* the others and from a file already there ("JPEG-0").
BytesFor(c) == "JPEG-" \o ToString(c)
FsErrors == {"mkdirSync", "writeFileSync"}
ImageStatuses == {200, 404, 500}

\* strapi.ts:258
FullUrl(url) ==
    IF StartsWith(url, "http") THEN url ELSE Str(STRAPI_URL) \o url

\* strapi.ts:261
BuildMode == env.PROD \/ env.MODE = "production"

\* strapi.ts:245-250
NoUrl ==
    Outcome("fulfilled", Null,
            IF env.DEV THEN << "No image URL provided, returning null" >>
            ELSE << >>)

\* strapi.ts:252-255 and 307-308: return getStrapiMedia(url)
BypassReturnsFullUrl(url) == Outcome("fulfilled", FullUrl(url), << >>)
Bypass(url) == Outcome("fulfilled", getStrapiMedia(url), << >>)

\* strapi.ts:267-270
NoFilename(fullUrl) ==
    Outcome("fulfilled", fullUrl,
            << "Could not extract filename from URL: " \o fullUrl >>)

\* strapi.ts:274-277
DownloadFailedReturnsLocal(fullUrl, status) ==
    Outcome("fulfilled", "/uploads/" \o LastSegment(Pathname(fullUrl)), << >>)
DownloadFailed(fullUrl, status) ==
    Outcome("fulfilled", fullUrl,
            << "Failed to download image (" \o ToString(status) \o "): "
               \o fullUrl >>)

\* strapi.ts:296-299
Cached(filename) ==
    Outcome("fulfilled", "/uploads/" \o filename,
            << "Downloaded image: " \o filename >>)

\* strapi.ts:300-304: catch (error) { log; return fullUrl }
ImageCatchRethrows(fullUrl, error) == Outcome("rejected", error, << >>)
ImageCatch(fullUrl, error) ==
    Outcome("fulfilled", fullUrl,
            << "Error downloading image " \o fullUrl \o ": " \o error >>)

\* fs.existsSync(uploadsDir)
ExistsSync(f) == f.dir
\* fs.mkdirSync(uploadsDir, { recursive: true })
MkdirSync(f) == [f EXCEPT !.dir = TRUE]
\* fs.writeFileSync(localPath, buffer): creates or replaces the file.
WriteFileSyncKeepsExisting(f, name, data) ==
    [f EXCEPT !.files = f.files @@ (name :> data)]
WriteFileSync(f, name, data) ==
    [f EXCEPT !.files = (name :> data) @@ f.files]

FsCall(c, call, name, data) ==
    [call |-> call, by |-> c, name |-> name, data |-> data]

\* downloadStrapiImage(url), up to await fetch(fullUrl).
CallImage(c, url) ==
    /\ pc[c] = "idle"
    /\ op' = [op EXCEPT ![c] = "downloadStrapiImage"]
    /\ arg' = [arg EXCEPT ![c] = url]
    /\ IF Falsy(url)
       THEN /\ Settle(c, NoUrl)
            /\ UNCHANGED <<loc, requests>>
       ELSE IF env.DEV
       THEN /\ Settle(c, Bypass(url))
            /\ UNCHANGED <<loc, requests>>
       ELSE IF ~BuildMode
       THEN /\ loc' = [loc EXCEPT ![c].url = FullUrl(url)]
            /\ Settle(c, Bypass(url))
            /\ UNCHANGED requests
       ELSE IF ~ParseUrl(FullUrl(url)).ok
       THEN /\ loc' = [loc EXCEPT ![c].url = FullUrl(url),
                                  ![c].error = ParseUrlError]
            /\ Settle(c, ImageCatch(FullUrl(url), ParseUrlError))
            /\ UNCHANGED requests
       ELSE LET fullUrl  == FullUrl(url)
                urlPath  == ParseUrl(fullUrl).pathname
                filename == LastSegment(urlPath)
            IN  /\ loc' = [loc EXCEPT ![c].url = fullUrl,
                                      ![c].filename = filename]
                /\ IF Falsy(filename)
                   THEN /\ Settle(c, NoFilename(fullUrl))
                        /\ UNCHANGED requests
                   ELSE /\ requests' =
                             IF Fetchable(fullUrl)
                             THEN requests \cup {[by |-> c, url |-> fullUrl,
                                                  auth |-> Undefined,
                                                  timeout |-> NoTimeout]}
                             ELSE requests
                        /\ pc' = [pc EXCEPT ![c] = "fetch"]
                        /\ UNCHANGED <<settled, result, log>>
    /\ UNCHANGED <<config, fs, journal, outs>>

\* await fetch(fullUrl) rejects.
ImageFetchRejects(c, error) ==
    /\ pc[c] = "fetch"
    /\ op[c] = "downloadStrapiImage"
    /\ error \in FetchRejections({r \in requests : r.by = c}, NoTimeout)
    /\ loc' = [loc EXCEPT ![c].error = error]
    /\ Settle(c, ImageCatch(loc[c].url, error))
    /\ UNCHANGED <<config, op, arg, requests, fs, journal, outs>>

\* await fetch(fullUrl) resolves with a response of some status.
ImageFetchResponds(c, status) ==
    /\ pc[c] = "fetch"
    /\ op[c] = "downloadStrapiImage"
    /\ \E r \in requests : r.by = c
    /\ loc' = [loc EXCEPT ![c].status = status]
    /\ IF ~Ok(status)
       THEN Settle(c, DownloadFailed(loc[c].url, status))
       ELSE /\ pc' = [pc EXCEPT ![c] = "arrayBuffer"]
            /\ UNCHANGED <<settled, result, log>>
    /\ UNCHANGED <<config, op, arg, requests, fs, journal, outs>>

\* await response.arrayBuffer() rejects: the connection broke mid-body.
BodyRejects(c) ==
    /\ pc[c] = "arrayBuffer"
    /\ loc' = [loc EXCEPT ![c].error = NetworkError]
    /\ Settle(c, ImageCatch(loc[c].url, NetworkError))
    /\ UNCHANGED <<config, op, arg, requests, fs, journal, outs>>

\* await response.arrayBuffer() resolves; buffer = Buffer.from(arrayBuffer).
BodyResolves(c) ==
    /\ pc[c] = "arrayBuffer"
    /\ loc' = [loc EXCEPT ![c].buffer = BytesFor(c)]
    /\ pc' = [pc EXCEPT ![c] = "importFs"]
    /\ UNCHANGED <<config, op, arg, settled, result, requests, log, fs,
                   journal, outs>>

\* await import('fs') resolves.
ImportFs(c) ==
    /\ pc[c] = "importFs"
    /\ pc' = [pc EXCEPT ![c] = "importPath"]
    /\ UNCHANGED <<config, op, arg, loc, settled, result, requests, log, fs,
                   journal, outs>>

\* await import('path') resolves; then, with no further await: existsSync,
\* mkdirSync, writeFileSync, return `/uploads/${filename}`.
SaveImage(c) ==
    /\ pc[c] = "importPath"
    /\ LET made == ~ExistsSync(fs)
           fs1  == IF made THEN MkdirSync(fs) ELSE fs
       IN  /\ fs' = WriteFileSync(fs1, loc[c].filename, loc[c].buffer)
           /\ journal' = journal
                \o (IF made THEN << FsCall(c, "mkdirSync", "", "") >> ELSE << >>)
                \o << FsCall(c, "writeFileSync", loc[c].filename,
                          loc[c].buffer) >>
    /\ Settle(c, Cached(loc[c].filename))
    /\ UNCHANGED <<config, op, arg, loc, requests, outs>>

\* The same run, with mkdirSync or writeFileSync throwing (EACCES, EROFS):
\* the call that throws changes nothing.
SaveThrows(c, at) ==
    /\ pc[c] = "importPath"
    /\ at = "mkdirSync" => ~ExistsSync(fs)
    /\ LET made == ~ExistsSync(fs) /\ at = "writeFileSync"
       IN  /\ fs' = IF made THEN MkdirSync(fs) ELSE fs
           /\ journal' = journal
                \o (IF made THEN << FsCall(c, "mkdirSync", "", "") >> ELSE << >>)
    /\ loc' = [loc EXCEPT ![c].error = "Error: EACCES: " \o at]
    /\ Settle(c, ImageCatch(loc[c].url, "Error: EACCES: " \o at))
    /\ UNCHANGED <<config, op, arg, requests, outs>>

InitFiles == { NoFiles,
               [dir |-> TRUE, files |-> << >>],
               [dir |-> TRUE, files |-> ("a.jpg" :> "JPEG-0")] }

\* downloadStrapiImage does not read STRAPI_TOKEN.
Init ==
    /\ STRAPI_URL \in BaseUrls
    /\ STRAPI_TOKEN = Undefined
    /\ env \in Envs
    /\ InitCalls(ImageCalls)
    /\ fs \in InitFiles
    /\ journal = << >>
    /\ outs = << >>

\* What resumes a suspended task c.
Resume(c) ==
    \/ \E error \in AllErrors : ImageFetchRejects(c, error)
    \/ \E status \in ImageStatuses : ImageFetchResponds(c, status)
    \/ BodyRejects(c)
    \/ BodyResolves(c)
    \/ ImportFs(c)
    \/ SaveImage(c)
    \/ \E at \in FsErrors : SaveThrows(c, at)

Next ==
    \E c \in ImageCalls :
        \/ \E url \in ImagePaths : CallImage(c, url)
        \/ Resume(c)

Spec == Init /\ [][Next]_vars

(***************************************************************************)
(* Properties of the content fetchers, checked under SpecFetch.            *)
(***************************************************************************)
Called(c, f)  == op[c] = f
Done(c, f)    == op[c] = f /\ pc[c] = "done"
Returned(c, f, v) ==
    /\ Done(c, f)
    /\ settled[c] = "fulfilled"
    /\ result[c] = v
RequestsBy(c) == {r \in requests : r.by = c}

\* C1: with no base URL configured (undefined or empty), every call of
\* fetchStrapi has already returned { data: [], meta: {} } and every call of
\* fetchStrapiSingle { data: null, meta: {} }, whatever the endpoint, and the
\* call has issued no request.
C1_UnconfiguredShortCircuit ==
    \A c \in DOMAIN pc :
        Falsy(STRAPI_URL) =>
            /\ Called(c, "fetchStrapi") =>
                   Returned(c, "fetchStrapi", EmptyCollection)
            /\ Called(c, "fetchStrapiSingle") =>
                   Returned(c, "fetchStrapiSingle", NullSingle)
            /\ RequestsBy(c) = {}
            /\ loc[c].url = Undefined

C1_Witness ==
    \E c \in DOMAIN pc :
        /\ STRAPI_URL = ""
        /\ arg[c] = "menu-items"
        /\ Returned(c, "fetchStrapi", EmptyCollection)
        /\ requests = {}

\* C2: every completed fetchStrapi call returns a value whose data member is
\* an array.
C2_ItemsAlwaysSequence ==
    \A c \in DOMAIN pc :
        Done(c, "fetchStrapi") =>
            /\ settled[c] = "fulfilled"
            /\ result[c].body = "object"
            /\ result[c].data = "array"

\* The attempt of call c failed: a status >= 400, a network error, or the
\* 10 second timeout.
AttemptFailed(c) ==
    \/ loc[c].status >= 400
    \/ loc[c].error \in {NetworkError, TimeoutError}

\* C3: with a base URL configured, a call whose attempt failed (status >= 400
\* of any class, network error, timeout) has returned the fallback value of
\* its function and its promise is not rejected.
C3_FailureFallsBack ==
    \A c \in DOMAIN pc :
        \A f \in Fetchers :
            (~Falsy(STRAPI_URL) /\ Done(c, f) /\ AttemptFailed(c)) =>
                /\ settled[c] = "fulfilled"
                /\ result[c] = (IF f = "fetchStrapi" THEN EmptyCollection
                                ELSE NullSingle)

C3_Witness ==
    \E c \in DOMAIN pc :
        /\ STRAPI_URL = "https://cms.io"
        /\ loc[c].status = 403
        /\ Returned(c, "fetchStrapiSingle", NullSingle)
        /\ RequestsBy(c) # {}

(***************************************************************************)
(* Properties of getStrapiMedia, checked under SpecMedia.                  *)
(***************************************************************************)
\* C4 as claimed: for every base URL, when the first application returns a
\* string, the second application returns the same string.
C4_IdempotentForEveryBase ==
    (Len(outs) >= 2 /\ outs[1] # Null) => outs[2] = outs[1]

\* C4 as amended: the same, for a base URL that begins with "http".
C4_IdempotentForHttpBase ==
    (/\ StartsWith(Str(STRAPI_URL), "http")
     /\ Len(outs) >= 2
     /\ outs[1] # Null) => outs[2] = outs[1]

C4_Witness ==
    /\ STRAPI_URL = "https://cms.io"
    /\ arg[1] = "/uploads/a.jpg"
    /\ outs = << "https://cms.io/uploads/a.jpg", "https://cms.io/uploads/a.jpg" >>

(***************************************************************************)
(* Properties of downloadStrapiImage, checked under Spec.                  *)
(***************************************************************************)
Image == "downloadStrapiImage"

\* The runtime modes in which the image is cached.
ProductionMode == ~env.DEV /\ (env.PROD \/ env.MODE = "production")

\* /uploads/<filename>, with a filename.
IsLocalPath(s) ==
    /\ StartsWith(s, "/uploads/")
    /\ Len(s) > Len("/uploads/")
    /\ LastSlash(s) = Len("/uploads/")

\* The path made absolute: the base URL prepended unless it is absolute.
RemoteUrl(path) ==
    IF StartsWith(path, "http") THEN path ELSE Str(STRAPI_URL) \o path

JournalBy(c) == {i \in 1..Len(journal) : journal[i].by = c}
WritesOf(name) ==
    {i \in 1..Len(journal) :
        journal[i].call = "writeFileSync" /\ journal[i].name = name}
LastWriteOf(name) ==
    journal[CHOOSE i \in WritesOf(name) : \A j \in WritesOf(name) : i >= j]
FileExists(name) == fs.dir /\ name \in DOMAIN fs.files

\* C5: in production mode a completed call with a non-null path has returned
\* /uploads/<filename> or an absolute URL: the path with the base URL
\* prepended unless it is absolute already.
C5_LocalPathOrAbsoluteUrl ==
    \A c \in DOMAIN pc :
        (ProductionMode /\ Done(c, Image) /\ ~Falsy(arg[c])) =>
            /\ settled[c] = "fulfilled"
            /\ \/ IsLocalPath(result[c])
               \/ result[c] = RemoteUrl(arg[c]) /\ UrlParses(result[c])

\* C6: a call of downloadStrapiImage never ends with its promise rejected: a
\* call that is over has returned, a call that is suspended can be resumed,
\* and a call with a null, absent or empty url has returned null with no
\* request and no filesystem call.
C6_TotalNeverRaises ==
    \A c \in DOMAIN pc :
        Called(c, Image) =>
            /\ settled[c] # "rejected"
            /\ pc[c] = "done" => settled[c] = "fulfilled"
            /\ pc[c] # "done" => ENABLED Resume(c)
            /\ Falsy(arg[c]) =>
                   /\ Returned(c, Image, Null)
                   /\ RequestsBy(c) = {}
                   /\ JournalBy(c) = {}

C6_Witness ==
    \E c, d \in DOMAIN pc :
        /\ ProductionMode
        /\ Returned(c, Image, Null)
        /\ arg[c] = Null
        /\ loc[d].error = NetworkError
        /\ Returned(d, Image, "https://cms.io/uploads/a.jpg")

\* C7: outside production mode every step leaves the filesystem as it was,
\* and every call of downloadStrapiImage has returned getStrapiMedia(url).
C7_DevBypass ==
    [][~ProductionMode =>
          /\ fs' = fs
          /\ journal' = journal
          /\ \A c \in DOMAIN pc :
                 Called(c, Image)' =>
                     Returned(c, Image, getStrapiMedia(arg[c]))']_vars

C7_Witness ==
    \E c, d \in DOMAIN pc :
        /\ ~ProductionMode
        /\ STRAPI_URL = "https://cms.io"
        /\ arg[c] = "/uploads/a.jpg"
        /\ Returned(c, Image, "https://cms.io/uploads/a.jpg")
        /\ arg[d] = "https://cdn.io/a.jpg"
        /\ Returned(d, Image, "https://cdn.io/a.jpg")
        /\ fs = NoFiles

\* The download of call c succeeded: a 2xx response whose body was read.
Downloaded(c) == Ok(loc[c].status) /\ loc[c].buffer # Undefined

\* C8: in production mode a completed call whose download succeeded has
\* written the downloaded bytes to <filename> and returned /uploads/<filename>;
\* and whenever a call has returned a /uploads/<filename> path, that file
\* exists.
C8_CachedFileExists ==
    \A c \in DOMAIN pc :
        (ProductionMode /\ Done(c, Image)) =>
            /\ Downloaded(c) =>
                   /\ result[c] = "/uploads/" \o loc[c].filename
                   /\ \E i \in JournalBy(c) :
                          journal[i] = FsCall(c, "writeFileSync",
                                              loc[c].filename, loc[c].buffer)
            /\ (settled[c] = "fulfilled" /\ IsLocalPath(result[c])) =>
                   FileExists(LastSegment(result[c]))

\* The download of call c did not succeed: the request or the body read
\* failed, the status was not 2xx, or the url has no final path segment.
DownloadDidNotSucceed(c) ==
    \/ loc[c].error = NetworkError
    \/ loc[c].status # 0 /\ ~(loc[c].status \in 200..299)
    \/ loc[c].filename = ""

\* C9: in production mode a completed call whose download did not succeed has
\* returned the absolute remote URL and has made no filesystem call.
C9_FailedDownloadFallsBack ==
    \A c \in DOMAIN pc :
        (ProductionMode /\ Done(c, Image) /\ DownloadDidNotSucceed(c)) =>
            /\ settled[c] = "fulfilled"
            /\ result[c] = RemoteUrl(arg[c])
            /\ UrlParses(result[c])
            /\ JournalBy(c) = {}

C9_Witness ==
    \E c \in DOMAIN pc :
        /\ ProductionMode
        /\ loc[c].error = NetworkError
        /\ loc[c].status = 0
        /\ arg[c] = "/uploads/a.jpg"
        /\ Returned(c, Image, "https://cms.io/uploads/a.jpg")
        /\ fs = NoFiles

\* Two distinct completed calls whose downloads succeeded, for one filename.
SameTarget(c, d) ==
    /\ c # d
    /\ Done(c, Image) /\ Done(d, Image)
    /\ Downloaded(c) /\ Downloaded(d)
    /\ loc[c].filename = loc[d].filename

\* Both return /uploads/<filename>, and the file holds the bytes of the call
\* that wrote last.
LastWriterWins(c, d) ==
    LET name == loc[c].filename IN
    /\ result[c] = "/uploads/" \o name
    /\ result[d] = "/uploads/" \o name
    /\ FileExists(name)
    /\ WritesOf(name) # {}
    /\ fs.files[name] = LastWriteOf(name).data
    /\ LastWriteOf(name).data = loc[LastWriteOf(name).by].buffer

\* The step appends a writeFileSync of call c to the journal.
Writes(c) ==
    /\ Len(journal') > Len(journal)
    /\ journal'[Len(journal')].call = "writeFileSync"
    /\ journal'[Len(journal')].by = c

\* C10 as claimed: for two calls whose downloads succeeded for one filename
\* the last writer wins, and the file write is a suspension point: the step
\* that writes ends at the write, before the call returns.
C10_WriteIsSuspensionPoint ==
    [][/\ \A c, d \in DOMAIN pc :
              SameTarget(c, d)' => LastWriterWins(c, d)'
       /\ \A c \in DOMAIN pc : Writes(c) => pc'[c] # "done"]_vars

\* C10 as amended: for two calls whose downloads and writes succeeded for one
\* filename the last writer wins; the directory check, the write and the
\* return are one step, so every filesystem call in the journal was made by a
\* call that is over, and the step that writes is the step that returns.
C10_LastWriterWinsAtomicWrite ==
    [][/\ \A c, d \in DOMAIN pc :
              (/\ SameTarget(c, d)'
               /\ loc'[c].error = Undefined
               /\ loc'[d].error = Undefined) => LastWriterWins(c, d)'
       /\ \A c \in DOMAIN pc :
              /\ Writes(c) => (pc[c] = "importPath" /\ pc'[c] = "done")
              /\ JournalBy(c)' # {} => pc'[c] = "done"]_vars

C10_Witness ==
    /\ ProductionMode
    /\ SameTarget(1, 2)
    /\ arg[1] = "/uploads/a.jpg"
    /\ arg[2] = "https://cdn.io/a.jpg"
    /\ result[1] = "/uploads/a.jpg"
    /\ result[2] = "/uploads/a.jpg"
    /\ LastWriteOf("a.jpg").by = 1
    /\ fs.files["a.jpg"] = loc[1].buffer
    /\ loc[1].buffer # loc[2].buffer

====
